---- MODULE Spec2Model ----
(***************************************************************************)
(* A state-machine model of AsyncEventEmitter (src/unnamed/part_000): the  *)
(* listener registry with once-wrappers and the once-mapping, the optional *)
(* concurrency gate (p-limit), and the four emission strategies driven as  *)
(* promise chains whose listeners settle at nondeterministic later steps.  *)
(***************************************************************************)
EXTENDS Integers, Sequences, FiniteSets, TLC

VARIABLES registry, onceMap, wrappers, handles, gates, limiter, ems, added, thrown

vars == <<registry, onceMap, wrappers, handles, gates, limiter, ems, added, thrown>>

\* ------------------------------------------------------------------ bounds
\* listeners ever added to the registry
MaxListeners == 2
\* emissions issued in SpecGate and SpecOnce (emissions that run concurrently)
MaxEmits == 2
\* emissions issued in Spec (one emission followed to its settlement)
MaxRuns == 1

\* ------------------------------------------------------------------ values
\* JavaScript values as uniformly shaped records: undefined, a number, an
\* array of values, an Error with a message.
Undef == [k |-> "undefined", n |-> 0, a |-> <<>>, m |-> ""]
Num(x) == [k |-> "number", n |-> x, a |-> <<>>, m |-> ""]
Arr(s) == [k |-> "array", n |-> 0, a |-> s, m |-> ""]
Err(msg) == [k |-> "error", n |-> 0, a |-> <<>>, m |-> msg]

isArray(v) == v.k = "array"

Events == {"e1", "e2"}
Fns == {"wrap", "later", "boop", "beep", "foo"}
Caps == {1, 2}
ArgLists == {<<Num(2), Num(3)>>}

\* The argument of setConcurrency and of the constructor: no value, a string,
\* NaN, or the number h/2 (so that 1.5 is Halves(3) and the integer n is
\* Whole(n)).
NoValue == [t |-> "undefined", nan |-> FALSE, h |-> 0]
Str == [t |-> "string", nan |-> FALSE, h |-> 0]
NaN == [t |-> "number", nan |-> TRUE, h |-> 0]
Halves(h) == [t |-> "number", nan |-> FALSE, h |-> h]
Whole(n) == Halves(2 * n)

\* typeof concurrency === "number" && concurrency >= 1
isConcurrency(c) == c.t = "number" /\ ~c.nan /\ c.h >= 2

\* p-limit's own validation of its argument: a positive integer.
pLimitAccepts(c) == ~c.nan /\ c.h > 0 /\ c.h % 2 = 0

\* ---------------------------------------------------------------- listeners
\* A function reference: w = 0 is a function the caller wrote (named f);
\* w > 0 is the w-th once-wrapper, closed over the original f and event e.
Raw(f) == [w |-> 0, f |-> f, e |-> ""]

\* A value that is not a function, passed where a listener is expected.
NotAFunction == Raw("42")

\* typeof listener === "function"
isFunction(l) == l # NotAFunction

FirstArg(args) == IF Len(args) >= 1 THEN args[1] ELSE Undef

\* What calling a listener does: how |-> "value" (returns a plain value),
\* "throw" (throws synchronously), "settled" (returns a promise that is
\* already settled), "pending" (returns a promise that settles later).
listenerWrap(args) == [how |-> "value", ok |-> TRUE, v |-> Arr(<<FirstArg(args)>>)]
listenerLater(args) == [how |-> "pending", ok |-> TRUE, v |-> FirstArg(args)]
listenerBoop(args) == [how |-> "throw", ok |-> FALSE, v |-> Err("boop")]
listenerBeep(args) == [how |-> "settled", ok |-> FALSE, v |-> Err("beep")]
listenerFoo(args) == [how |-> "pending", ok |-> FALSE, v |-> Err("foo")]
\* A listener that emits NestedEvent on the same engine and returns that
\* emission's promise: how |-> "nested".
listenerNest(args) == [how |-> "nested", ok |-> TRUE, v |-> Undef]

NestedEvent == "e2"

Body(f, args) ==
  CASE f = "wrap" -> listenerWrap(args)
    [] f = "later" -> listenerLater(args)
    [] f = "boop" -> listenerBoop(args)
    [] f = "beep" -> listenerBeep(args)
    [] f = "foo" -> listenerFoo(args)
    [] f = "nest" -> listenerNest(args)

\* ------------------------------------------------------------------ helpers
Reverse(s) == [i \in 1..Len(s) |-> s[Len(s) + 1 - i]]

RemoveAt(s, i) == SubSeq(s, 1, i - 1) \o SubSeq(s, i + 1, Len(s))

LastIndexOf(s, x) ==
  IF \E i \in 1..Len(s) : s[i] = x
  THEN CHOOSE i \in 1..Len(s) : s[i] = x /\ \A j \in (i + 1)..Len(s) : s[j] # x
  ELSE 0

MapSet(f, key, val) == [x \in (DOMAIN f) \cup {key} |-> IF x = key THEN val ELSE f[x]]

MapDelete(f, key) == [x \in (DOMAIN f) \ {key} |-> f[x]]

\* The engine's state as one record, threaded through the operators below;
\* thrown is the exception the call being made throws to its caller.
Cur == [reg |-> registry, om |-> onceMap, wr |-> wrappers, gt |-> gates,
        lim |-> limiter, ems |-> ems, thrown |-> "none"]

Commit(S) ==
  /\ registry' = S.reg
  /\ onceMap' = S.om
  /\ wrappers' = S.wr
  /\ gates' = S.gt
  /\ limiter' = S.lim
  /\ ems' = S.ems
  /\ thrown' = S.thrown

\* ----------------------------------------------------------------- registry
\* EventEmitter.removeListener: removes the most recently added instance.
superRemoveListener(reg, e, x) ==
  LET i == LastIndexOf(reg[e], x)
  IN IF i = 0 THEN reg ELSE [reg EXCEPT ![e] = RemoveAt(@, i)]

removeListener(S, e, x) ==
  IF x \in DOMAIN S.om
  THEN LET t == S.om[x]
       IN [S EXCEPT !.om = MapDelete(S.om, x),
                    !.reg = superRemoveListener(S.reg, e, t)]
  ELSE [S EXCEPT !.reg = superRemoveListener(S.reg, e, x)]

\* Mutant of once: the listener's type is not checked.
onceUnchecked(S, e, l) ==
  LET W == [w |-> Len(S.wr) + 1, f |-> l.f, e |-> e]
  IN [S EXCEPT !.wr = Append(@, [fired |-> FALSE, runs |-> 0, calls |-> 0]),
               !.reg[e] = Append(@, W),
               !.om = MapSet(S.om, l, W)]

once(S, e, l) ==
  LET W == [w |-> Len(S.wr) + 1, f |-> l.f, e |-> e]
  IN IF ~isFunction(l) THEN [S EXCEPT !.thrown = "listener must be a function"]
     ELSE [S EXCEPT !.wr = Append(@, [fired |-> FALSE, runs |-> 0, calls |-> 0]),
                    !.reg[e] = Append(@, W),
                    !.om = MapSet(S.om, l, W)]

\* Mutant of onceListener: the wrapper does not look at its fired flag.
onceListenerUnguarded(S, l, args) ==
  LET S1 == removeListener(S, l.e, l)
      w == S.wr[l.w]
  IN [S |-> [S1 EXCEPT !.wr[l.w] =
               [fired |-> TRUE, runs |-> w.runs + 1, calls |-> w.calls + 1]],
      out |-> Body(l.f, args)]

\* The once-wrapper's body: [S |-> state after, out |-> what the call returns].
onceListener(S, l, args) ==
  LET S1 == removeListener(S, l.e, l)
      w == S.wr[l.w]
  IN IF w.fired = FALSE
     THEN [S |-> [S1 EXCEPT !.wr[l.w] =
                    [fired |-> TRUE, runs |-> w.runs + 1, calls |-> w.calls + 1]],
           out |-> Body(l.f, args)]
     ELSE [S |-> [S1 EXCEPT !.wr[l.w].calls = @ + 1],
           out |-> [how |-> "value", ok |-> TRUE, v |-> Undef]]

\* listener(...args)
callListener(S, l, args) ==
  IF l.w = 0 THEN [S |-> S, out |-> Body(l.f, args)] ELSE onceListener(S, l, args)

\* ---------------------------------------------------------------- emissions
\* aw is the emission whose promise the listener returned (0: none).
NewInv(l, args, st, g) ==
  [l |-> l, args |-> args, st |-> st, v |-> Undef, g |-> g, ord |-> 0, aw |-> 0]

\* One call of an emission method; lim is the gate configured at the call.
NewEm(kind, e, args, snap, ls, acc, lim) ==
  [kind |-> kind, ev |-> e, args |-> args, snap |-> snap, ls |-> ls, invs |-> <<>>,
   st |-> "pending", v |-> Undef, acc |-> acc, nset |-> 0, lim |-> lim]

\* Invocation i of emission m settles with (ok, v); ord is its rank among the
\* settlements of that emission.
settle(S, m, i, ok, v) ==
  [S EXCEPT !.ems[m].invs[i].st = IF ok THEN "ok" ELSE "err",
            !.ems[m].invs[i].v = v,
            !.ems[m].invs[i].ord = S.ems[m].nset + 1,
            !.ems[m].nset = @ + 1]

\* The thunk's start: the listener is called; a value or a throw settles the
\* invocation now, a returned promise later.
RECURSIVE emitParallel(_, _, _)
RECURSIVE startNow(_, _, _, _)
startNow(S, m, i, promiseToo) ==
  LET inv == S.ems[m].invs[i]
      r == callListener(S, inv.l, inv.args)
      S1 == [r.S EXCEPT !.ems[m].invs[i].st = "running"]
  IN IF r.out.how \in {"value", "throw"} \/ (promiseToo /\ r.out.how = "settled")
     THEN settle(S1, m, i, r.out.ok, r.out.v)
     ELSE IF r.out.how = "nested"
          THEN emitParallel([S1 EXCEPT !.ems[m].invs[i].aw = Len(S1.ems) + 1],
                            NestedEvent, inv.args)
          ELSE S1

\* Mutant of _executeListener: the limiter is recorded but not awaited.
executeListenerUngated(S, m, l, args) ==
  LET i == Len(S.ems[m].invs) + 1
  IN startNow([S EXCEPT !.ems[m].invs = Append(@, NewInv(l, args, "queued", S.lim))],
              m, i, TRUE)

\* Mutant of _executeListener: no try/catch around the direct call.
executeListenerUncaught(S, m, l, args) ==
  LET i == Len(S.ems[m].invs) + 1
  IN IF S.lim # 0
     THEN [S EXCEPT !.ems[m].invs = Append(@, NewInv(l, args, "queued", S.lim)),
                    !.gt[S.lim].queue = Append(@, <<m, i>>)]
     ELSE IF callListener(S, l, args).out.how = "throw"
          THEN [S EXCEPT !.thrown = callListener(S, l, args).out.v.m]
          ELSE startNow([S EXCEPT !.ems[m].invs = Append(@, NewInv(l, args, "queued", 0))],
                        m, i, TRUE)

\* try { limiter ? limiter(() => listener(...args)) : Promise.resolve(listener(...args)) }
\* catch (err) { Promise.reject(err) }: a throw of the direct call becomes a
\* rejected promise (startNow settles it as failed).
_executeListener(S, m, l, args) ==
  LET i == Len(S.ems[m].invs) + 1
  IN IF S.lim # 0
     THEN [S EXCEPT !.ems[m].invs = Append(@, NewInv(l, args, "queued", S.lim)),
                    !.gt[S.lim].queue = Append(@, <<m, i>>)]
     ELSE startNow([S EXCEPT !.ems[m].invs = Append(@, NewInv(l, args, "queued", 0))],
                   m, i, TRUE)

\* The concurrency gate: pLimit(concurrency).
pLimit(n) == [cap |-> n, active |-> 0, queue |-> <<>>]

\* Mutant of promiseReact: the results are collected in completion order.
promiseReactByCompletion(em, i) ==
  IF em.st # "pending" \/ em.invs[i].st \notin {"ok", "err"} THEN em
  ELSE IF em.invs[i].st = "err"
       THEN [em EXCEPT !.st = "rejected", !.v = em.invs[i].v]
       ELSE IF \A j \in 1..Len(em.invs) : em.invs[j].st = "ok"
            THEN [em EXCEPT !.st = "resolved",
                            !.v = Arr([r \in 1..Len(em.invs) |->
                                   em.invs[CHOOSE j \in 1..Len(em.invs) :
                                             em.invs[j].ord = r].v])]
            ELSE em

\* Mutant of promiseReact: a later rejection replaces the earlier one.
promiseReactLastError(em, i) ==
  IF em.st = "resolved" \/ em.invs[i].st \notin {"ok", "err"} THEN em
  ELSE IF em.invs[i].st = "err"
       THEN [em EXCEPT !.st = "rejected", !.v = em.invs[i].v]
       ELSE IF \A j \in 1..Len(em.invs) : em.invs[j].st = "ok"
            THEN [em EXCEPT !.st = "resolved",
                            !.v = Arr([j \in 1..Len(em.invs) |-> em.invs[j].v])]
            ELSE em

\* Promise.all's reaction to promise i of a parallel emission: the first
\* rejection it sees rejects the aggregate, the last fulfilment resolves it
\* with the results by index.
promiseReact(em, i) ==
  IF em.st # "pending" \/ em.invs[i].st \notin {"ok", "err"} THEN em
  ELSE IF em.invs[i].st = "err"
       THEN [em EXCEPT !.st = "rejected", !.v = em.invs[i].v]
       ELSE IF \A j \in 1..Len(em.invs) : em.invs[j].st = "ok"
            THEN [em EXCEPT !.st = "resolved",
                            !.v = Arr([j \in 1..Len(em.invs) |-> em.invs[j].v])]
            ELSE em

RECURSIVE reactFrom(_, _)
reactFrom(em, i) ==
  IF i > Len(em.invs) THEN em ELSE reactFrom(promiseReact(em, i), i + 1)

\* Promise.all(promises): promises already settled react in index order.
promiseAll(em) ==
  IF Len(em.invs) = 0 THEN [em EXCEPT !.st = "resolved", !.v = Arr(<<>>)]
  ELSE reactFrom(em, 1)

RECURSIVE forEach(_, _, _, _, _)
forEach(S, m, ls, args, i) ==
  IF i > Len(ls) THEN S
  ELSE forEach(_executeListener(S, m, ls[i], args), m, ls, args, i + 1)

emitParallel(S, e, args) ==
  LET ls == S.reg[e]
      m == Len(S.ems) + 1
      S0 == [S EXCEPT !.ems = Append(@, NewEm("parallel", e, args, ls, ls, Undef, S.lim))]
      S1 == forEach(S0, m, ls, args, 1)
  IN [S1 EXCEPT !.ems[m] = promiseAll(@)]

\* A chain over no listeners is its initial promise, already resolved.
newChain(S, kind, e, args, snap, ls, acc) ==
  LET em == NewEm(kind, e, args, snap, ls, acc, S.lim)
  IN [S EXCEPT !.ems = Append(@, IF Len(ls) = 0
                                   THEN [em EXCEPT !.st = "resolved", !.v = acc]
                                   ELSE em)]

emitSerial(S, e, args) ==
  newChain(S, "serial", e, args, S.reg[e], S.reg[e], Arr(<<>>))

_emitReduceRun(S, e, args, inverse) ==
  LET listeners == IF inverse THEN Reverse(S.reg[e]) ELSE S.reg[e]
  IN newChain(S, IF inverse THEN "reduceRight" ELSE "reduce", e, args, S.reg[e],
              listeners, Arr(args))

emitReduce(S, e, args) == _emitReduceRun(S, e, args, FALSE)

emitReduceRight(S, e, args) == _emitReduceRun(S, e, args, TRUE)

\* Mutant of currentArgs: the previous result is never spread.
currentArgsNoSpread(prevArgs) == <<prevArgs>>

\* isArray(prevArgs) ? prevArgs : [prevArgs]
currentArgs(prevArgs) == IF isArray(prevArgs) THEN prevArgs.a ELSE <<prevArgs>>

\* Mutant of chainReady: the next listener does not wait for the previous one.
chainReadyEager(em) ==
  /\ em.kind # "parallel"
  /\ em.st = "pending"
  /\ IF Len(em.invs) = 0 THEN TRUE ELSE em.invs[Len(em.invs)].st # "queued"

\* The next then-callback of a chain may run: the chain is pending and the
\* listener it waits for, if any, has settled.
chainReady(em) ==
  /\ em.kind # "parallel"
  /\ em.st = "pending"
  /\ IF Len(em.invs) = 0 THEN TRUE ELSE em.invs[Len(em.invs)].st \in {"ok", "err"}

\* Mutant of chainValue: a reduction's result is normalized to an array.
chainValueNormalized(em, v) ==
  IF em.kind = "serial" THEN Arr(Append(em.acc.a, v))
  ELSE IF isArray(v) THEN v ELSE Arr(<<v>>)

\* The value the chain carries after listener k fulfilled with v.
chainValue(em, v) ==
  IF em.kind = "serial" THEN Arr(Append(em.acc.a, v)) ELSE v

\* Mutant of chainStep: the chain reads the event's listeners when it runs.
chainStepLive(S, m) ==
  LET em == S.ems[m]
      k == Len(em.invs)
      live == IF em.kind = "reduceRight" THEN Reverse(S.reg[em.ev]) ELSE S.reg[em.ev]
  IN IF k > 0 /\ em.invs[k].st = "err"
     THEN [S EXCEPT !.ems[m].st = "rejected", !.ems[m].v = em.invs[k].v]
     ELSE LET acc1 == IF k = 0 THEN em.acc ELSE chainValue(em, em.invs[k].v)
              S1 == [S EXCEPT !.ems[m].acc = acc1]
          IN IF k < Len(live)
             THEN _executeListener(S1, m, live[k + 1],
                                   IF em.kind = "serial" THEN em.args
                                   ELSE currentArgs(acc1))
             ELSE [S1 EXCEPT !.ems[m].st = "resolved", !.ems[m].v = acc1]

\* Mutant of chainStep: a rejection does not stop the chain.
chainStepOnError(S, m) ==
  LET em == S.ems[m]
      k == Len(em.invs)
      acc1 == IF k = 0 \/ em.invs[k].st = "err" THEN em.acc
              ELSE chainValue(em, em.invs[k].v)
      S1 == [S EXCEPT !.ems[m].acc = acc1]
  IN IF k < Len(em.ls)
     THEN _executeListener(S1, m, em.ls[k + 1],
                           IF em.kind = "serial" THEN em.args ELSE currentArgs(acc1))
     ELSE [S1 EXCEPT !.ems[m].st = "resolved", !.ems[m].v = acc1]

\* One link of the chain: a rejection skips every later then-callback; a
\* fulfilment is carried on and the next listener, if any, is executed.
chainStep(S, m) ==
  LET em == S.ems[m]
      k == Len(em.invs)
  IN IF k > 0 /\ em.invs[k].st = "err"
     THEN [S EXCEPT !.ems[m].st = "rejected", !.ems[m].v = em.invs[k].v]
     ELSE LET acc1 == IF k = 0 THEN em.acc ELSE chainValue(em, em.invs[k].v)
              S1 == [S EXCEPT !.ems[m].acc = acc1]
          IN IF k < Len(em.ls)
             THEN _executeListener(S1, m, em.ls[k + 1],
                                   IF em.kind = "serial" THEN em.args
                                   ELSE currentArgs(acc1))
             ELSE [S1 EXCEPT !.ems[m].st = "resolved", !.ems[m].v = acc1]

\* ------------------------------------------------------------------ actions
\* added counts the listeners ever added to the registry (calls of on).
CanAdd == added < MaxListeners

\* subscribe: the handle is returned only if the registration did not throw.
Subscribe(e, f, o) ==
  /\ CanAdd
  /\ LET S == IF o THEN once(Cur, e, Raw(f))
              ELSE [Cur EXCEPT !.reg[e] = Append(@, Raw(f))]
     IN /\ Commit(S)
        /\ handles' = IF S.thrown # "none" THEN handles
                      ELSE handles \cup
                             {[e |-> e, l |-> Raw(f), made |-> S.reg[e][Len(S.reg[e])]]}
        /\ added' = IF S.thrown # "none" THEN added ELSE added + 1

Once(e, f) ==
  /\ CanAdd
  /\ LET S == once(Cur, e, Raw(f))
     IN /\ Commit(S)
        /\ added' = IF S.thrown # "none" THEN added ELSE added + 1
  /\ UNCHANGED handles

RemoveListener(e, f) ==
  /\ Commit(removeListener(Cur, e, Raw(f)))
  /\ UNCHANGED <<handles, added>>

Unsubscribe(h) ==
  /\ h \in handles
  /\ Commit(removeListener(Cur, h.e, h.l))
  /\ UNCHANGED <<handles, added>>

\* pLimit(concurrency) throws a TypeError unless it is given a positive
\* integer; the assignment to this.limiter then does not happen.
setConcurrency(S, concurrency) ==
  IF isConcurrency(concurrency)
  THEN IF pLimitAccepts(concurrency)
       THEN [S EXCEPT !.gt = Append(@, pLimit(concurrency.h \div 2)),
                      !.lim = Len(S.gt) + 1]
       ELSE [S EXCEPT !.thrown = "Expected concurrency to be a number from 1 and up"]
  ELSE S

SetConcurrency(n) ==
  /\ Commit(setConcurrency(Cur, n))
  /\ UNCHANGED <<handles, added>>

EmitParallel(e, args) ==
  /\ Commit(emitParallel(Cur, e, args))
  /\ UNCHANGED <<handles, added>>

EmitSerial(e, args) ==
  /\ Commit(emitSerial(Cur, e, args))
  /\ UNCHANGED <<handles, added>>

EmitReduce(e, args) ==
  /\ Commit(emitReduce(Cur, e, args))
  /\ UNCHANGED <<handles, added>>

EmitReduceRight(e, args) ==
  /\ Commit(emitReduceRight(Cur, e, args))
  /\ UNCHANGED <<handles, added>>

ChainStep(m) ==
  /\ chainReady(ems[m])
  /\ Commit(chainStep(Cur, m))
  /\ UNCHANGED <<handles, added>>

\* Mutant of gateFree: the gate runs a queued thunk whatever its load.
gateFreeUncapped(g) == Len(g.queue) > 0

\* The gate has a free slot: it dequeues its oldest thunk and runs it.
gateFree(g) == g.active < g.cap /\ Len(g.queue) > 0

\* Mutant of admit: the thunks of an emission already rejected are dropped.
admitCancelling(S, gi) ==
  LET g == S.gt[gi]
      m == g.queue[1][1]
      i == g.queue[1][2]
      S1 == [S EXCEPT !.gt[gi].queue = Tail(@), !.gt[gi].active = @ + 1]
      S2 == startNow(S1, m, i, FALSE)
      S3 == IF S2.ems[m].invs[i].st = "running" THEN S2
            ELSE [S2 EXCEPT !.gt[gi].active = @ - 1]
  IN IF S.ems[m].st = "rejected" THEN [S EXCEPT !.gt[gi].queue = Tail(@)]
     ELSE [S3 EXCEPT !.ems[m] = IF @.kind = "parallel" THEN promiseReact(@, i) ELSE @]

admit(S, gi) ==
  LET g == S.gt[gi]
      m == g.queue[1][1]
      i == g.queue[1][2]
      S1 == [S EXCEPT !.gt[gi].queue = Tail(@), !.gt[gi].active = @ + 1]
      S2 == startNow(S1, m, i, FALSE)
      S3 == IF S2.ems[m].invs[i].st = "running" THEN S2
            ELSE [S2 EXCEPT !.gt[gi].active = @ - 1]
  IN [S3 EXCEPT !.ems[m] = IF @.kind = "parallel" THEN promiseReact(@, i) ELSE @]

Admit(gi) ==
  /\ gateFree(gates[gi])
  /\ Commit(admit(Cur, gi))
  /\ UNCHANGED <<handles, added>>

\* The promise a running listener returned can settle: it waits for nothing,
\* or the emission it waits for has settled.
canSettle(S, inv) ==
  inv.st = "running" /\ (IF inv.aw = 0 THEN TRUE ELSE S.ems[inv.aw].st # "pending")

\* The promise a running listener returned settles; its gate slot is freed.
settled(S, m, i) ==
  LET inv == S.ems[m].invs[i]
      out == IF inv.aw = 0 THEN Body(inv.l.f, inv.args)
             ELSE [ok |-> S.ems[inv.aw].st = "resolved", v |-> S.ems[inv.aw].v]
      S1 == settle(S, m, i, out.ok, out.v)
      S2 == IF inv.g = 0 THEN S1 ELSE [S1 EXCEPT !.gt[inv.g].active = @ - 1]
  IN [S2 EXCEPT !.ems[m] = IF @.kind = "parallel" THEN promiseReact(@, i) ELSE @]

Settle(m, i) ==
  /\ canSettle(Cur, ems[m].invs[i])
  /\ Commit(settled(Cur, m, i))
  /\ UNCHANGED <<handles, added>>

\* new AsyncEventEmitter(concurrency)
constructor(concurrency) ==
  LET S0 == [reg |-> [e \in Events |-> <<>>], om |-> <<>>, wr |-> <<>>, gt |-> <<>>,
             lim |-> 0, ems |-> <<>>, thrown |-> "none"]
      S == IF isConcurrency(concurrency) THEN setConcurrency(S0, concurrency) ELSE S0
  IN /\ registry = S.reg
     /\ onceMap = S.om
     /\ wrappers = S.wr
     /\ handles = {}
     /\ added = 0
     /\ ems = S.ems
     /\ gates = S.gt
     /\ limiter = S.lim
     /\ thrown = S.thrown

\* ----------------------------------------------------------- specifications
\* Spec: listeners of every kind are added to one event and one emission of
\* any strategy is followed to its settlement, with or without a gate.
Init == \E c \in {0} \cup Caps : constructor(Whole(c))

CanRun == Len(ems) < MaxRuns

Next ==
  \/ \E f \in Fns : Subscribe("e1", f, FALSE)
  \/ \E a \in ArgLists : CanRun /\ EmitParallel("e1", a)
  \/ \E a \in ArgLists : CanRun /\ EmitSerial("e1", a)
  \/ \E a \in ArgLists : CanRun /\ EmitReduce("e1", a)
  \/ \E a \in ArgLists : CanRun /\ EmitReduceRight("e1", a)
  \/ \E m \in 1..Len(ems) : ChainStep(m)
  \/ \E gi \in 1..Len(gates) : Admit(gi)
  \/ \E m \in 1..Len(ems) : \E i \in 1..Len(ems[m].invs) : Settle(m, i)

Spec == Init /\ [][Next]_vars

\* SpecGate: emissions of all strategies run concurrently over listeners that
\* settle later; the cap is given to the constructor or set once afterwards.
GateRegistries == {<<Raw("later")>>, <<Raw("later"), Raw("later")>>,
                   <<Raw("foo"), Raw("later")>>}

InitGate ==
  \E c \in {0} \cup Caps : \E ls \in GateRegistries :
    /\ registry = [e \in Events |-> IF e = "e1" THEN ls ELSE <<>>]
    /\ onceMap = <<>>
    /\ wrappers = <<>>
    /\ handles = {}
    /\ added = Len(ls)
    /\ ems = <<>>
    /\ gates = IF c >= 1 THEN <<pLimit(c)>> ELSE <<>>
    /\ limiter = IF c >= 1 THEN 1 ELSE 0
    /\ thrown = "none"

CanEmit == Len(ems) < MaxEmits

NextGate ==
  \/ \E n \in {0} \cup Caps : (n >= 1 => limiter = 0) /\ SetConcurrency(Whole(n))
  \/ \E a \in ArgLists : CanEmit /\ EmitParallel("e1", a)
  \/ \E a \in ArgLists : CanEmit /\ EmitSerial("e1", a)
  \/ \E a \in ArgLists : CanEmit /\ EmitReduce("e1", a)
  \/ \E a \in ArgLists : CanEmit /\ EmitReduceRight("e1", a)
  \/ \E m \in 1..Len(ems) : ChainStep(m)
  \/ \E gi \in 1..Len(gates) : Admit(gi)
  \/ \E m \in 1..Len(ems) : \E i \in 1..Len(ems[m].invs) : Settle(m, i)

SpecGate == InitGate /\ [][NextGate]_vars

\* SpecOnce: one listener reference is registered, once-registered, removed
\* and unsubscribed on two events while parallel emissions run, some of them
\* delayed by a gate of capacity 1.
OnceFns == {"later"}

InitOnce == \E c \in {0, 1} : constructor(Whole(c))

NextOnce ==
  \/ \E e \in Events, f \in OnceFns, o \in BOOLEAN : Subscribe(e, f, o)
  \/ \E e \in Events, f \in OnceFns : Once(e, f)
  \/ \E e \in Events, f \in OnceFns : RemoveListener(e, f)
  \/ \E h \in handles : Unsubscribe(h)
  \/ \E e \in Events, a \in ArgLists : CanEmit /\ EmitParallel(e, a)
  \/ \E gi \in 1..Len(gates) : Admit(gi)
  \/ \E m \in 1..Len(ems) : \E i \in 1..Len(ems[m].invs) : Settle(m, i)

SpecOnce == InitOnce /\ [][NextOnce]_vars

\* SpecRegate: the engine is built with a gate, which setConcurrency replaces
\* once while parallel and chained emissions over two slow listeners are running.
InitRegate ==
  \E c \in Caps :
    /\ registry = [e \in Events |-> IF e = "e1" THEN <<Raw("later"), Raw("later")>>
                                    ELSE <<>>]
    /\ onceMap = <<>>
    /\ wrappers = <<>>
    /\ handles = {}
    /\ added = 2
    /\ ems = <<>>
    /\ gates = <<pLimit(c)>>
    /\ limiter = 1
    /\ thrown = "none"

NextRegate ==
  \/ \E n \in Caps : limiter = 1 /\ SetConcurrency(Whole(n))
  \/ \E a \in ArgLists : CanEmit /\ EmitParallel("e1", a)
  \/ \E a \in ArgLists : CanEmit /\ EmitSerial("e1", a)
  \/ \E a \in ArgLists : CanEmit /\ EmitReduce("e1", a)
  \/ \E m \in 1..Len(ems) : ChainStep(m)
  \/ \E gi \in 1..Len(gates) : Admit(gi)
  \/ \E m \in 1..Len(ems) : \E i \in 1..Len(ems[m].invs) : Settle(m, i)

SpecRegate == InitRegate /\ [][NextRegate]_vars

\* SpecArgs: the operations are called with arguments of every kind, valid
\* or not, on an engine with listeners registered for one event and an
\* emission in flight.
ConcArgs == {NoValue, Str, NaN} \cup {Halves(h) : h \in -2..4}

Installs(c) == isConcurrency(c) /\ pLimitAccepts(c)

ListenerArgs == {"later", NotAFunction.f}

InitArgs == \E c \in ConcArgs : constructor(c) /\ thrown = "none"

NextArgs ==
  \/ \E c \in ConcArgs : (Installs(c) => limiter = 0) /\ SetConcurrency(c)
  \/ \E f \in ListenerArgs, o \in BOOLEAN :
       (o \/ isFunction(Raw(f))) /\ Subscribe("e1", f, o)
  \/ \E f \in ListenerArgs : Once("e1", f)
  \/ \E a \in ArgLists : CanRun /\ EmitParallel("e1", a)
  \/ \E gi \in 1..Len(gates) : Admit(gi)
  \/ \E m \in 1..Len(ems) : \E i \in 1..Len(ems[m].invs) : Settle(m, i)

SpecArgs == InitArgs /\ [][NextArgs]_vars

\* SpecSnap: listeners are added to and removed from an event, plainly and
\* once, while one emission of any strategy over that event is in progress;
\* the event starts with no listener or with two (added counts the others).
SnapFns == {"later", "wrap"}

SnapRegistries == {<<>>, <<Raw("later"), Raw("wrap")>>}

InitSnap ==
  \E c \in {0, 1} : \E ls \in SnapRegistries :
    /\ registry = [e \in Events |-> IF e = "e1" THEN ls ELSE <<>>]
    /\ onceMap = <<>>
    /\ wrappers = <<>>
    /\ handles = {}
    /\ added = 0
    /\ ems = <<>>
    /\ gates = IF c >= 1 THEN <<pLimit(c)>> ELSE <<>>
    /\ limiter = IF c >= 1 THEN 1 ELSE 0
    /\ thrown = "none"

NextSnap ==
  \/ \E f \in SnapFns, o \in BOOLEAN : Subscribe("e1", f, o)
  \/ \E f \in SnapFns : RemoveListener("e1", f)
  \/ \E h \in handles : Unsubscribe(h)
  \/ \E a \in ArgLists : ems = <<>> /\ EmitParallel("e1", a)
  \/ \E a \in ArgLists : ems = <<>> /\ EmitSerial("e1", a)
  \/ \E a \in ArgLists : ems = <<>> /\ EmitReduce("e1", a)
  \/ \E a \in ArgLists : ems = <<>> /\ EmitReduceRight("e1", a)
  \/ \E m \in 1..Len(ems) : ChainStep(m)
  \/ \E gi \in 1..Len(gates) : Admit(gi)
  \/ \E m \in 1..Len(ems) : \E i \in 1..Len(ems[m].invs) : Settle(m, i)

SpecSnap == InitSnap /\ [][NextSnap]_vars

\* SpecNest: an engine with a gate whose listeners for e1 each emit
\* NestedEvent on the same engine and wait for that emission, whose listener
\* settles by itself.
NestRegistries == {<<Raw("nest")>>, <<Raw("nest"), Raw("nest")>>}

InitNest ==
  \E c \in Caps : \E ls \in NestRegistries :
    /\ registry = [e \in Events |-> IF e = NestedEvent THEN <<Raw("later")>> ELSE ls]
    /\ onceMap = <<>>
    /\ wrappers = <<>>
    /\ handles = {}
    /\ added = Len(ls) + 1
    /\ ems = <<>>
    /\ gates = <<pLimit(c)>>
    /\ limiter = 1
    /\ thrown = "none"

\* The emissions the caller issued (the others were issued by listeners).
TopLevel == {m \in 1..Len(ems) : ems[m].ev # NestedEvent}

CanEmitTop == Cardinality(TopLevel) < MaxEmits

NextNest ==
  \/ \E a \in ArgLists : CanEmitTop /\ EmitParallel("e1", a)
  \/ \E a \in ArgLists : CanEmitTop /\ EmitSerial("e1", a)
  \/ \E m \in 1..Len(ems) : ChainStep(m)
  \/ \E gi \in 1..Len(gates) : Admit(gi)
  \/ \E m \in 1..Len(ems) : \E i \in 1..Len(ems[m].invs) : Settle(m, i)

SpecNest == InitNest /\ [][NextNest]_vars

\* ------------------------------------------------------------------- claims
Range(s) == {s[i] : i \in 1..Len(s)}

Invs == {<<m, i>> : m \in 1..Len(ems), i \in 1..MaxListeners + 1}

InvIds == {p \in Invs : p[2] <= Len(ems[p[1]].invs)}

InvOf(p) == ems[p[1]].invs[p[2]]

Running == {p \in InvIds : InvOf(p).st = "running"}

\* C1 as stated: once a cap N is set and never changed, at most N listener
\* invocations have started and not yet settled.
C1_Original ==
  Len(gates) = 1 => Cardinality(Running) <= gates[1].cap

\* C1 amended: once a cap N is set and never changed, at most N of the
\* invocations started after the cap was set have started and not yet
\* settled, over all strategies and all concurrent emissions; the others wait
\* in the gate's queue.
C1_CapRespected ==
  Len(gates) = 1 =>
    /\ Cardinality({p \in Running : InvOf(p).g = 1}) <= gates[1].cap
    /\ \A p \in InvIds : InvOf(p).st = "queued" =>
         \E q \in 1..Len(gates[1].queue) : gates[1].queue[q] = p

\* Two emissions share the gate: one has a listener running in every slot,
\* the other's listener waits in the queue.
C1_Witness ==
  /\ Len(gates) = 1
  /\ Cardinality({p \in Running : InvOf(p).g = 1}) = gates[1].cap
  /\ \E p \in Running, q \in InvIds :
       /\ p[1] # q[1]
       /\ InvOf(q).st = "queued"
       /\ ems[p[1]].kind # ems[q[1]].kind

Parallel == {m \in 1..Len(ems) : ems[m].kind = "parallel"}

AllOk(em) == Len(em.invs) = Len(em.ls) /\ \A i \in 1..Len(em.invs) : em.invs[i].st = "ok"

\* The result of listener l called with args, as the listener yields it.
ResultOf(l, args) == Body(l.f, args).v

\* C2: when all listeners L1..Ln of an emitParallel succeed, it resolves to
\* [r1..rn], ri the result of Li, whatever the order in which they completed.
C2_ParallelOrder ==
  \A m \in Parallel :
    LET em == ems[m]
    IN /\ AllOk(em) => em.st = "resolved"
       /\ em.st = "resolved" =>
            /\ isArray(em.v)
            /\ Len(em.v.a) = Len(em.snap)
            /\ \A i \in 1..Len(em.snap) : em.v.a[i] = ResultOf(em.snap[i], em.args)

\* Behind a gate, the listener registered first completed last, and the two
\* results differ.
C2_Witness ==
  \E m \in Parallel :
    /\ ems[m].st = "resolved"
    /\ Len(ems[m].invs) = 2
    /\ ems[m].invs[1].g # 0
    /\ ems[m].invs[1].ord > ems[m].invs[2].ord
    /\ ems[m].v.a[1] # ems[m].v.a[2]

Failed(em) == {i \in 1..Len(em.invs) : em.invs[i].st = "err"}

\* The failing listener whose promise settled as rejected earliest.
FirstFailed(em) ==
  CHOOSE i \in Failed(em) : \A j \in Failed(em) : em.invs[i].ord <= em.invs[j].ord

\* Listeners whose failure is already there when they return: a synchronous
\* throw or an already rejected promise.
FailsAtReturn(em) ==
  {i \in 1..Len(em.ls) :
     LET b == Body(em.ls[i].f, em.args)
     IN ~b.ok /\ b.how \in {"throw", "settled"}}

EarliestFailureWins(em) ==
  Failed(em) # {} =>
    /\ em.st = "rejected"
    /\ em.v = em.invs[FirstFailed(em)].v
    /\ em.v = ResultOf(em.ls[FirstFailed(em)], em.args)

FirstRegisteredWinsTie(em) ==
  (Failed(em) # {} /\ FirstFailed(em) \in FailsAtReturn(em)) =>
    \A i \in FailsAtReturn(em) : FirstFailed(em) <= i

\* C3 as stated: a failing emitParallel rejects with the error of the
\* listener whose promise rejected earliest, and among failures already
\* rejected when the listeners return the one registered first is surfaced.
C3_Original ==
  \A m \in Parallel : EarliestFailureWins(ems[m]) /\ FirstRegisteredWinsTie(ems[m])

\* C3 amended: the same, the tie rule only on an engine without a gate
\* (behind a gate a later listener's throw can reject the aggregate before an
\* earlier listener's already rejected promise does).
C3_EarliestFailure ==
  \A m \in Parallel :
    /\ EarliestFailureWins(ems[m])
    /\ (\A i \in 1..Len(ems[m].invs) : ems[m].invs[i].g = 0) =>
         FirstRegisteredWinsTie(ems[m])

\* Both listeners failed and the one registered second is the one surfaced.
C3_Witness ==
  \E m \in Parallel :
    /\ Failed(ems[m]) = {1, 2}
    /\ FirstFailed(ems[m]) = 2
    /\ ems[m].invs[1].v # ems[m].invs[2].v
    /\ ems[m].v = ems[m].invs[2].v

Chains == {m \in 1..Len(ems) : ems[m].kind # "parallel"}

Reductions == {m \in 1..Len(ems) : ems[m].kind \in {"reduce", "reduceRight"}}

\* The listener a chain calls in position i: registration order, reversed
\* for emitReduceRight.
InOrder(em, i) ==
  IF em.kind = "reduceRight" THEN em.snap[Len(em.snap) + 1 - i] ELSE em.snap[i]

Unsettled(em) == {i \in 1..Len(em.invs) : em.invs[i].st \in {"queued", "running"}}

\* C4: a chain starts its listeners in the defined order, listener k+1 only
\* after listener k settled, so at most one is executing; emitSerial
\* resolves to the results in registration order.
C4_SerialOrder ==
  \A m \in Chains :
    LET em == ems[m]
    IN /\ \A i \in 1..Len(em.invs) : em.invs[i].l = InOrder(em, i)
       /\ \A i \in 1..Len(em.invs) - 1 : em.invs[i].st = "ok"
       /\ Cardinality(Unsettled(em)) <= 1
       /\ (em.kind = "serial" /\ em.st = "resolved") =>
            /\ Len(em.v.a) = Len(em.snap)
            /\ \A i \in 1..Len(em.snap) : em.v.a[i] = ResultOf(em.snap[i], em.args)

\* The second listener of an emitReduceRight (the one registered first) runs
\* after the first one settled.
C4_Witness ==
  \E m \in Chains :
    /\ ems[m].kind = "reduceRight"
    /\ Len(ems[m].invs) = 2
    /\ ems[m].snap[1] # ems[m].snap[2]
    /\ ems[m].invs[1].st = "ok"
    /\ ems[m].invs[2].st = "running"

\* C5: once a listener of a chain fails, no later listener is invoked and
\* the emission rejects with that listener's error unchanged.
C5_FailureStops ==
  \A m \in Chains :
    LET em == ems[m]
    IN /\ \A i \in 1..Len(em.invs) : em.invs[i].st = "err" =>
            /\ i = Len(em.invs)
            /\ em.st # "resolved"
            /\ em.invs[i].v = ResultOf(InOrder(em, i), em.invs[i].args)
       /\ em.st = "rejected" =>
            /\ Len(em.invs) >= 1
            /\ em.invs[Len(em.invs)].st = "err"
            /\ em.v = em.invs[Len(em.invs)].v

\* An emitReduceRight rejected by the listener registered last; the listener
\* registered first was never invoked.
C5_Witness ==
  \E m \in Chains :
    /\ ems[m].kind = "reduceRight"
    /\ ems[m].st = "rejected"
    /\ Len(ems[m].ls) = 2
    /\ Len(ems[m].invs) = 1
    /\ ems[m].invs[1].l = ems[m].snap[2]

\* C6: a reduction calls its first listener with the original args and every
\* later one with the previous result, spread if it is an array and as the
\* single argument if it is not.
C6_ReduceArgs ==
  \A m \in Reductions :
    LET em == ems[m]
    IN \A i \in 1..Len(em.invs) :
         em.invs[i].args =
           IF i = 1 THEN em.args
           ELSE IF em.invs[i - 1].v.k = "array" THEN em.invs[i - 1].v.a
           ELSE <<em.invs[i - 1].v>>

\* One listener returned a bare number and the next one was called with it
\* as its only argument.
C6_Witness ==
  \E m \in Reductions :
    /\ Len(ems[m].invs) = 2
    /\ ems[m].invs[1].v.k = "number"
    /\ ems[m].invs[2].args = <<ems[m].invs[1].v>>
    /\ ems[m].invs[2].args # ems[m].args

\* C7 as stated: a reduction resolves to an array: the last listener's result
\* normalized like the intermediate ones, or the original args when no
\* listener is registered.
C7_Original ==
  \A m \in Reductions :
    LET em == ems[m]
        last == em.invs[Len(em.invs)].v
    IN em.st = "resolved" =>
         /\ isArray(em.v)
         /\ em.v = IF Len(em.ls) = 0 THEN Arr(em.args)
                   ELSE IF isArray(last) THEN last ELSE Arr(<<last>>)

\* C7 amended: a reduction resolves to the last listener's result as the
\* listener returned it (a bare value stays bare), or to the original args
\* when no listener is registered.
C7_ReduceResult ==
  \A m \in Reductions :
    LET em == ems[m]
        n == Len(em.ls)
    IN em.st = "resolved" =>
         /\ Len(em.invs) = n
         /\ em.v = IF n = 0 THEN Arr(em.args)
                   ELSE ResultOf(InOrder(em, n), em.invs[n].args)

\* A reduction over two listeners resolved to a bare number.
C7_Witness ==
  \E m \in Reductions :
    /\ ems[m].st = "resolved"
    /\ Len(ems[m].ls) = 2
    /\ ems[m].v.k = "number"

Registered(w) == \E e \in Events : \E i \in 1..Len(registry[e]) : registry[e][i].w = w

\* C8: the original listener of a once-registration is executed at most once
\* whatever the emissions do, and its wrapper is no longer registered once
\* the wrapper has run.
C8_OnceAtMostOnce ==
  \A w \in 1..Len(wrappers) :
    /\ wrappers[w].runs <= 1
    /\ wrappers[w].calls >= 1 => ~Registered(w)

\* Two emissions captured the same wrapper: it was called twice and the
\* original listener ran once.
C8_Witness ==
  \E w \in 1..Len(wrappers) : wrappers[w].calls = 2 /\ wrappers[w].runs = 1

\* The once-registrations of f for event e in registry reg that have not fired.
PendingOnce(reg, wr, e, f) ==
  {i \in 1..Len(reg[e]) :
     reg[e][i].w > 0 /\ reg[e][i].f = f /\ ~wr[reg[e][i].w].fired}

\* C9 as stated: removeListener(e, l) with the original reference removes the
\* once-registration of l for e that has not fired, also when l is
\* once-registered for another event.
C9_Original ==
  [][\A e \in Events, f \in OnceFns :
       (RemoveListener(e, f) /\ Cardinality(PendingOnce(registry, wrappers, e, f)) = 1)
         => PendingOnce(registry', wrappers', e, f) = {}]_vars

Count(s, x) == Cardinality({i \in 1..Len(s) : s[i] = x})

\* The registrations of function f, plain or once, in the sequence s.
OfFn(s, f) == {i \in 1..Len(s) : s[i].f = f}

\* C10 as stated: invoking the handle subscribe returned, while the
\* registration it made is present (and is the listener's only registration
\* for that event), removes it: the listener is no longer in the event's
\* listener sequence.
C10_Original ==
  [][\A h \in handles :
       (/\ Unsubscribe(h)
        /\ Count(registry[h.e], h.made) = 1
        /\ Cardinality(OfFn(registry[h.e], h.l.f)) = 1)
         => OfFn(registry'[h.e], h.l.f) = {}]_vars

\* The once-wrappers still registered and unfired that removeListener, given
\* their original listener, would remove: the once-mapping leads to them.
Removable(reg, om, wr) ==
  {W \in UNION {Range(reg[e]) : e \in Events} :
     /\ W.w > 0
     /\ W \in Range(reg[W.e])
     /\ ~wr[W.w].fired
     /\ Raw(W.f) \in DOMAIN om
     /\ om[Raw(W.f)] = W}

\* C11 as stated: invoking a subscribe handle whose listener is no longer
\* registered for its event (the handle was already called, the once-listener
\* fired, or the listener was removed) has no effect: every listener sequence
\* is unchanged and every pending once-registration stays removable by its
\* original listener.
C11_Original ==
  [][\A h \in handles :
       (Unsubscribe(h) /\ OfFn(registry[h.e], h.l.f) = {})
         => /\ thrown' = "none"
            /\ registry' = registry
            /\ Removable(registry', onceMap', wrappers') =
                 Removable(registry, onceMap, wrappers)]_vars

\* C12 as stated: every listener invocation of an emission is submitted to
\* the gate that was configured when the emission was issued, also the later
\* listeners of a chain that start after setConcurrency replaced the gate.
C12_Original ==
  \A m \in 1..Len(ems) : \A i \in 1..Len(ems[m].invs) :
    ems[m].invs[i].g = ems[m].lim

RunningUnder(gi) == {p \in Running : InvOf(p).g = gi}

\* C19 as stated: after setConcurrency(m) replaced an earlier gate, the
\* number of listener invocations executing on the instance does not exceed
\* the currently configured cap m.
C19_Original ==
  Len(gates) >= 2 => Cardinality(Running) <= gates[limiter].cap

\* C19 amended: each gate caps the invocations submitted to it, also after it
\* was replaced: at any moment the invocations executing under gate g are as
\* many as g counts active and no more than g's capacity, so that after a
\* replacement up to the sum of the capacities of the gates still holding
\* work may execute at once.
C19_PerGateCap ==
  \A gi \in 1..Len(gates) :
    /\ Cardinality(RunningUnder(gi)) = gates[gi].active
    /\ gates[gi].active <= gates[gi].cap

\* After a replacement both gates are full: more invocations execute than
\* the configured cap allows.
C19_Witness ==
  /\ Len(gates) = 2
  /\ limiter = 2
  /\ Cardinality(RunningUnder(1)) = gates[1].cap
  /\ Cardinality(RunningUnder(2)) = gates[2].cap
  /\ Cardinality(Running) > gates[limiter].cap

\* The argument is an integer >= 1.
IntegerAtLeastOne(c) == c.t = "number" /\ ~c.nan /\ c.h >= 2 /\ c.h % 2 = 0

\* C13 as stated: setConcurrency(n) with an n that is not an integer >= 1
\* (no value, a non-number, 0, a negative number, NaN, 1.5) raises no error
\* and leaves the gate unchanged; with an integer n >= 1 it installs a gate
\* of capacity n.
C13_Original ==
  [][\A c \in ConcArgs :
       SetConcurrency(c) =>
         /\ thrown' = "none"
         /\ IF IntegerAtLeastOne(c)
            THEN /\ limiter' = Len(gates')
                 /\ gates' = Append(gates, [cap |-> c.h \div 2, active |-> 0,
                                            queue |-> <<>>])
            ELSE UNCHANGED <<gates, limiter>>]_vars

\* C15: once(event, x), and subscribe(event, x, true), with an x that is not
\* a function throws to its caller and leaves the engine as it was: no
\* listener added to any event, no once-mapping entry, no handle.
C15_OnceRejects ==
  [][\A e \in Events :
       (Once(e, NotAFunction.f) \/ Subscribe(e, NotAFunction.f, TRUE))
         => /\ thrown' = "listener must be a function"
            /\ UNCHANGED <<registry, onceMap, wrappers, handles, added, gates,
                           limiter, ems>>]_vars

\* once has thrown on an engine that holds a once-registration and an
\* emission in flight.
C15_Witness ==
  /\ thrown = "listener must be a function"
  /\ DOMAIN onceMap # {}
  /\ \E e \in Events : registry[e] # <<>>
  /\ \E m \in 1..Len(ems) : ems[m].st = "pending"

\* The invocations whose listener throws synchronously and that were called.
ThrowersCalled(em) ==
  {i \in 1..Len(em.invs) :
     /\ Body(em.invs[i].l.f, em.invs[i].args).how = "throw"
     /\ em.invs[i].st # "queued"}

Pending(reg, wr) ==
  {W \in UNION {Range(reg[e]) : e \in Events} : W.w > 0 /\ ~wr[W.w].fired}

\* C16 as stated: a listener is a key of the once-mapping if and only if it
\* has a once-registration that has neither fired nor been removed, and the
\* wrapper it is mapped to is registered for the event it was created for.
C16_Original ==
  /\ \A f \in OnceFns :
       Raw(f) \in DOMAIN onceMap <=> \E W \in Pending(registry, wrappers) : W.f = f
  /\ \A l \in DOMAIN onceMap : onceMap[l] \in Range(registry[onceMap[l].e])

\* C17: an emission calls the listeners captured when the emission method
\* was called, each in its captured position: adding or removing listeners
\* while it is in progress changes neither which listeners it calls nor
\* their order, and it resolves only after calling all of them.
C17_Snapshot ==
  \A m \in 1..Len(ems) :
    LET em == ems[m]
    IN /\ Len(em.invs) <= Len(em.snap)
       /\ \A i \in 1..Len(em.invs) : em.invs[i].l = InOrder(em, i)
       /\ (em.kind = "parallel" \/ em.st = "resolved") => Len(em.invs) = Len(em.snap)
       /\ (em.st = "pending" /\ em.kind # "parallel" /\ Len(em.invs) < Len(em.snap)
             /\ (Len(em.invs) > 0 => em.invs[Len(em.invs)].st = "ok"))
            => chainReady(em)

\* A chain was resolved after calling both captured listeners although,
\* when only its first listener had been called, the second one was no
\* longer registered and another listener had been added: here the state in
\* which the second call is still to come.
C17_Witness ==
  \E m \in Chains :
    /\ ems[m].st = "pending"
    /\ Len(ems[m].snap) = 2
    /\ Len(ems[m].invs) = 1
    /\ ems[m].snap[1] # ems[m].snap[2]
    /\ InOrder(ems[m], 2) \notin Range(registry[ems[m].ev])
    /\ \E x \in Range(registry[ems[m].ev]) : x \notin Range(ems[m].snap)

\* C18: an emitParallel has one invocation for every captured listener, and
\* none is cancelled when the emission is rejected: an invocation not yet
\* started waits exactly once in the queue of its gate, whose slots are all
\* taken by invocations still executing (a listener that failed holds none)
\* or which can admit it now; a started one is in no queue.
C18_NoCancellation ==
  /\ \A gi \in 1..Len(gates) : gates[gi].active = Cardinality(RunningUnder(gi))
  /\ \A m \in Parallel :
       LET em == ems[m]
       IN /\ Len(em.invs) = Len(em.snap)
          /\ \A i \in 1..Len(em.invs) :
               /\ em.invs[i].l = em.snap[i]
               /\ em.invs[i].g # 0 =>
                    /\ Count(gates[em.invs[i].g].queue, <<m, i>>) =
                         (IF em.invs[i].st = "queued" THEN 1 ELSE 0)
                    /\ em.invs[i].st = "queued" =>
                         \/ gateFree(gates[em.invs[i].g])
                         \/ gates[em.invs[i].g].active = gates[em.invs[i].g].cap
               /\ em.invs[i].g = 0 => em.invs[i].st # "queued"

\* Behind a gate of capacity 1 the first listener failed and rejected the
\* emission while the second was queued; the second has run to fulfilment.
C18_Witness ==
  \E m \in Parallel :
    /\ Len(ems[m].invs) = 2
    /\ ems[m].st = "rejected"
    /\ ems[m].invs[1].g # 0
    /\ gates[ems[m].invs[1].g].cap = 1
    /\ ems[m].invs[1].st = "err"
    /\ ems[m].invs[2].st = "ok"
    /\ ems[m].invs[1].ord < ems[m].invs[2].ord

\* Some step of the engine is possible: a gate can admit a thunk, a
\* listener's promise can settle, or a chain's next callback can run.
CanProgress ==
  \/ \E gi \in 1..Len(gates) : gateFree(gates[gi])
  \/ \E m \in 1..Len(ems) : \E i \in 1..Len(ems[m].invs) : canSettle(Cur, ems[m].invs[i])
  \/ \E m \in 1..Len(ems) : chainReady(ems[m])

\* C20 as stated, in the form a finite run refutes: while an emission has
\* not settled the engine is never stuck, so that every emission eventually
\* settles, also when listeners wait for a nested emission that passes
\* through the same gate.
C20_Original ==
  (\E m \in 1..Len(ems) : ems[m].st = "pending") => CanProgress
====
